---------------------------- MODULE Spec2Model ----------------------------
(***************************************************************************)
(* Model of homework.py (fitness tracker): the Training class hierarchy,   *)
(* InfoMessage, read_package, main and the __main__ loop.                  *)
(*                                                                         *)
(* Numbers.  The sensor values are Python ints; every computed quantity is *)
(* a Python float.  Floats are modelled as exact rationals [n, d] in       *)
(* lowest terms (d > 0); the rounding error of IEEE doubles is not         *)
(* modelled.  A division by zero raises ZeroDivisionError, as in Python    *)
(* (for ints and for floats alike: no inf or nan is produced by "/").      *)
(*                                                                         *)
(* Calls.  A call returns [ok |-> TRUE, val |-> v] or, when it raises,     *)
(* [ok |-> FALSE, err |-> [exc |-> <class name>, args |-> <tuple>]].       *)
(***************************************************************************)
EXTENDS Integers, Sequences, FiniteSets, TLC

VARIABLES packages, idx, pc, training, output, err, self, method, ret

vars == <<packages, idx, pc, training, output, err, self, method, ret>>

\* Python's None.
None == [none |-> TRUE]

IsNone(x) == DOMAIN x = {"none"}

Abs(x) == IF x < 0 THEN -x ELSE x

RECURSIVE GCD(_, _)
GCD(a, b) == IF b = 0 THEN a ELSE GCD(b, a % b)

(* ------------------------- exact rationals ----------------------------- *)

Rat(n, d) ==
    LET g == GCD(Abs(n), Abs(d))
        s == IF d < 0 THEN -1 ELSE 1
    IN  [n |-> s * (n \div g), d |-> s * (d \div g)]

FromInt(i) == [n |-> i, d |-> 1]

RMul(a, b) ==
    LET g1 == GCD(Abs(a.n), b.d)
        g2 == GCD(Abs(b.n), a.d)
    IN  [n |-> (a.n \div g1) * (b.n \div g2), d |-> (a.d \div g2) * (b.d \div g1)]

RInv(a) == IF a.n < 0 THEN [n |-> -a.d, d |-> -a.n] ELSE [n |-> a.d, d |-> a.n]

RDivNZ(a, b) == RMul(a, RInv(b))

RAdd(a, b) ==
    LET g == GCD(a.d, b.d)
    IN  Rat(a.n * (b.d \div g) + b.n * (a.d \div g), (a.d \div g) * b.d)

\* a ** 2
RSquare(a) == [n |-> a.n * a.n, d |-> a.d * a.d]

(* ------------------------- call results -------------------------------- *)

Ok(v) == [ok |-> TRUE, val |-> v]

Raise(exc, args) == [ok |-> FALSE, err |-> [exc |-> exc, args |-> args]]

ZeroDivisionError == Raise("ZeroDivisionError", <<"float division by zero">>)

(* ------------------------- float expressions --------------------------- *)
(* The operands of an expression are evaluated left to right; an operand   *)
(* that raises ends the evaluation of the whole expression.                *)

Val(i) == Ok(FromInt(i))

Mul(a, b) ==
    IF ~a.ok THEN a ELSE IF ~b.ok THEN b ELSE Ok(RMul(a.val, b.val))

Add(a, b) ==
    IF ~a.ok THEN a ELSE IF ~b.ok THEN b ELSE Ok(RAdd(a.val, b.val))

\* Python's "/": raises on a zero divisor, for ints and floats alike.
Div(a, b) ==
    IF ~a.ok THEN a
    ELSE IF ~b.ok THEN b
    ELSE IF b.val.n = 0 THEN ZeroDivisionError
    ELSE Ok(RDivNZ(a.val, b.val))

\* a ** 2
Pow2(a) == IF ~a.ok THEN a ELSE Ok(RSquare(a.val))

(* ------------------------- class Training ------------------------------ *)

M_IN_KM == 1000

H_IN_MIN == 60

\* Mutant: Swimming does not override LEN_STEP.
LEN_STEP_not_overridden(cls) == Ok(Rat(65, 100))

\* LEN_STEP as the instance sees it: Swimming overrides the class attribute.
LEN_STEP(cls) == IF cls = "Swimming" THEN Ok(Rat(138, 100)) ELSE Ok(Rat(65, 100))

Training__init__(cls, action, duration, weight) ==
    [cls |-> cls, action |-> action, duration |-> duration, weight |-> weight]

\* Mutant: "-" typed for "/".
get_distance_minus(t) ==
    Add(Mul(Val(t.action), LEN_STEP(t.cls)), Val(-M_IN_KM))

get_distance(t) == Div(Mul(Val(t.action), LEN_STEP(t.cls)), Val(M_IN_KM))

Training_get_mean_speed(t) == Div(get_distance(t), Val(t.duration))

\* The body is "pass": the call returns None.
Training_get_spent_calories(t) == Ok(None)

(* ------------------------- class Running ------------------------------- *)

CALORIES_MEAN_SPEED_MULTIPLIER == 18

CALORIES_MEAN_SPEED_SHIFT == Ok(Rat(179, 100))

\* Mutant: the shift is subtracted instead of added.
Running_get_spent_calories_minus_shift(t) ==
    Mul(Div(Mul(Add(Mul(Val(CALORIES_MEAN_SPEED_MULTIPLIER),
                        Training_get_mean_speed(t)),
                    Mul(Val(-1), CALORIES_MEAN_SPEED_SHIFT)),
                Val(t.weight)),
            Val(M_IN_KM)),
        Mul(Val(t.duration), Val(H_IN_MIN)))

Running_get_spent_calories(t) ==
    Mul(Div(Mul(Add(Mul(Val(CALORIES_MEAN_SPEED_MULTIPLIER),
                        Training_get_mean_speed(t)),
                    CALORIES_MEAN_SPEED_SHIFT),
                Val(t.weight)),
            Val(M_IN_KM)),
        Mul(Val(t.duration), Val(H_IN_MIN)))

(* ------------------------- rounding ------------------------------------ *)

\* q rounded to a whole number of thousandths, ties to even (Python's round
\* and its "f" presentation both round to nearest, ties to even).  The
\* rounding acts on the exact value; Python rounds the double nearest to it.
Thousandths(q) ==
    LET m  == RMul([n |-> Abs(q.n), d |-> q.d], FromInt(1000))
        fl == m.n \div m.d
        r2 == 2 * (m.n - fl * m.d)
        up == r2 > m.d \/ (r2 = m.d /\ fl % 2 = 1)
        a  == IF up THEN fl + 1 ELSE fl
    IN  IF q.n < 0 THEN -a ELSE a

(* ------------------------- class SportsWalking ------------------------- *)

SportsWalking_K_1 == Ok(Rat(35, 1000))

SportsWalking_K_2 == Ok(Rat(29, 1000))

\* round(1000 / 3600, 3)
KMpH_in_MpSec == Ok(Rat(Thousandths(Rat(1000, 3600)), 1000))

CM_IN_M == 100

SportsWalking__init__(action, duration, weight, height) ==
    [cls |-> "SportsWalking", action |-> action, duration |-> duration,
     weight |-> weight, height |-> height]

SportsWalking_get_spent_calories(t) ==
    Mul(Mul(Add(Mul(SportsWalking_K_1, Val(t.weight)),
                Mul(Mul(Div(Pow2(Mul(Training_get_mean_speed(t), KMpH_in_MpSec)),
                            Div(Val(t.height), Val(CM_IN_M))),
                        SportsWalking_K_2),
                    Val(t.weight))),
            Val(t.duration)),
        Val(H_IN_MIN))

(* ------------------------- class Swimming ------------------------------ *)

Swimming_K_1 == Ok(Rat(11, 10))

Swimming_K_2 == 2

Swimming__init__(action, duration, weight, length_pool, count_pool) ==
    [cls |-> "Swimming", action |-> action, duration |-> duration,
     weight |-> weight, length_pool |-> length_pool, count_pool |-> count_pool]

\* Mutant: the override is missing and the base formula is used.
Swimming_get_mean_speed_inherited(t) == Training_get_mean_speed(t)

Swimming_get_mean_speed(t) ==
    Div(Div(Val(t.length_pool * t.count_pool), Val(M_IN_KM)), Val(t.duration))

Swimming_get_spent_calories(t) ==
    Mul(Mul(Mul(Add(Swimming_get_mean_speed(t), Swimming_K_1), Val(Swimming_K_2)),
            Val(t.weight)),
        Val(t.duration))

(* ------------------------- method resolution --------------------------- *)

get_mean_speed(t) ==
    IF t.cls = "Swimming" THEN Swimming_get_mean_speed(t)
    ELSE Training_get_mean_speed(t)

get_spent_calories(t) ==
    CASE t.cls = "Running"       -> Running_get_spent_calories(t)
      [] t.cls = "SportsWalking" -> SportsWalking_get_spent_calories(t)
      [] t.cls = "Swimming"      -> Swimming_get_spent_calories(t)
      [] OTHER                   -> Training_get_spent_calories(t)

(* ------------------------- class InfoMessage --------------------------- *)

\* InfoMessage(...): the arguments are evaluated left to right, the first
\* one to raise ends the call; then __init__ stores them.
InfoMessage(training_type, duration, distance, speed, calories) ==
    IF ~distance.ok THEN distance
    ELSE IF ~speed.ok THEN speed
    ELSE IF ~calories.ok THEN calories
    ELSE Ok([training_type |-> training_type, duration |-> duration,
             distance |-> distance.val, speed |-> speed.val,
             calories |-> calories.val])

show_training_info(t) ==
    InfoMessage(t.cls, t.duration, get_distance(t), get_mean_speed(t),
                get_spent_calories(t))

\* The text "{x: .3f}" produces: a sign column (a space for a non-negative
\* number), the whole part, and exactly three decimals.
Format3f(q) ==
    LET a == Abs(Thousandths(q))
    IN  [sign |-> IF q.n < 0 THEN "-" ELSE " ",
         whole |-> a \div 1000, frac |-> a % 1000]

\* info.get_message() on what show_training_info returned or raised.
get_message(info) ==
    IF ~info.ok THEN info
    ELSE IF IsNone(info.val.calories)
    THEN Raise("TypeError",
               <<"unsupported format string passed to NoneType.__format__">>)
    ELSE Ok([training_type |-> info.val.training_type,
             duration |-> Format3f(FromInt(info.val.duration)),
             distance |-> Format3f(info.val.distance),
             speed    |-> Format3f(info.val.speed),
             calories |-> Format3f(info.val.calories)])

(* ------------------------- read_package -------------------------------- *)

\* Mutant: the entries of RUN and WLK are exchanged.
type_traing_dict_swapped ==
    [SWM |-> "Swimming", RUN |-> "SportsWalking", WLK |-> "Running"]

\* The dictionary of read_package; a class is named by its __name__.
type_traing_dict == [SWM |-> "Swimming", RUN |-> "Running", WLK |-> "SportsWalking"]

\* The class whose __init__ a call of cls reaches (Running defines none).
InitOwner(cls) == IF cls \in {"Training", "Running"} THEN "Training" ELSE cls

\* Positional parameters of that __init__, self not counted.
InitArity(cls) ==
    CASE cls = "SportsWalking" -> 4
      [] cls = "Swimming"      -> 5
      [] OTHER                 -> 3

\* cls(*data): Python binds the values to the parameters of __init__ and
\* raises TypeError when their number differs.
Construct(cls, data) ==
    LET n == InitArity(cls)
    IN  IF Len(data) < n
        THEN Raise("TypeError", <<InitOwner(cls), "__init__()", "missing",
                                  ToString(n - Len(data))>>)
        ELSE IF Len(data) > n
        THEN Raise("TypeError", <<InitOwner(cls), "__init__()", "takes",
                                  ToString(n + 1), "given", ToString(Len(data) + 1)>>)
        ELSE CASE cls = "SportsWalking" ->
                    Ok(SportsWalking__init__(data[1], data[2], data[3], data[4]))
               [] cls = "Swimming" ->
                    Ok(Swimming__init__(data[1], data[2], data[3], data[4], data[5]))
               [] OTHER ->
                    Ok(Training__init__(cls, data[1], data[2], data[3]))

\* dict.get of a missing key is None, and calling None raises TypeError.
read_package(workout_type, data) ==
    IF workout_type \notin DOMAIN type_traing_dict
    THEN Raise("TypeError", <<"'NoneType' object is not callable">>)
    ELSE Construct(type_traing_dict[workout_type], data)

(* ------------------------- the __main__ loop --------------------------- *)

MaxPackages == 3

\* The values a package list is drawn from: the first two packages of
\* __main__, a walking package (the exact calories of __main__'s own,
\* 13970069901/40000000, do not fit the model checker's 32-bit integers),
\* a second running package, and one package for each way a record can
\* fail.
PackageSet ==
    { <<"SWM", <<720, 1, 80, 25, 40>>>>,
      <<"RUN", <<15000, 1, 75>>>>,
      <<"WLK", <<10000, 1, 75, 180>>>>,
      <<"RUN", <<15000, 2, 75>>>>,
      <<"XYZ", <<15000, 1, 75>>>>,
      <<"RUN", <<15000, 1>>>>,
      <<"WLK", <<10000, 1, 75, 180, 40>>>>,
      <<"RUN", <<15000, 0, 75>>>>,
      <<"SWM", <<720, 0, 80, 25, 40>>>>,
      <<"WLK", <<10000, 1, 75, 0>>>> }

PackageLists == UNION { [1..n -> PackageSet] : n \in 0..MaxPackages }

\* An uncaught exception: what was raised and the function it left last.
Uncaught(e, tb) == [exc |-> e.exc, args |-> e.args, tb |-> tb]

Init ==
    /\ packages \in PackageLists
    /\ idx = 1
    /\ pc = "loop"
    /\ training = None
    /\ output = <<>>
    /\ err = None
    /\ self = None
    /\ method = "idle"
    /\ ret = None

\* for workout_type, data in packages: training = read_package(...)
Assign(r) ==
    IF r.ok
    THEN /\ training' = r.val
         /\ pc' = "main"
         /\ err' = err
    ELSE /\ err' = Uncaught(r.err, "read_package")
         /\ pc' = "crashed"
         /\ training' = training

ReadPackage ==
    /\ pc = "loop"
    /\ idx <= Len(packages)
    /\ Assign(read_package(packages[idx][1], packages[idx][2]))
    /\ UNCHANGED <<packages, idx, output, self, method, ret>>

\* main(training): build the message and print it; then the next package.
main(t) == get_message(show_training_info(t))

\* Mutant: the line is put in front of the earlier ones.
PrintLine_prepend(line) ==
    IF line.ok
    THEN /\ output' = <<line.val>> \o output
         /\ idx' = idx + 1
         /\ pc' = "loop"
         /\ err' = err
    ELSE /\ err' = Uncaught(line.err, "main")
         /\ pc' = "crashed"
         /\ UNCHANGED <<output, idx>>

\* Mutant: an exception of main is swallowed and the loop goes on.
PrintLine_swallow(line) ==
    IF line.ok
    THEN /\ output' = Append(output, line.val)
         /\ idx' = idx + 1
         /\ pc' = "loop"
         /\ err' = err
    ELSE /\ err' = Uncaught(line.err, "main")
         /\ idx' = idx + 1
         /\ pc' = "loop"
         /\ output' = output

\* print(...) of the line main built, or the exception main let through.
PrintLine(line) ==
    IF line.ok
    THEN /\ output' = Append(output, line.val)
         /\ idx' = idx + 1
         /\ pc' = "loop"
         /\ err' = err
    ELSE /\ err' = Uncaught(line.err, "main")
         /\ pc' = "crashed"
         /\ UNCHANGED <<output, idx>>

Main ==
    /\ pc = "main"
    /\ PrintLine(main(training))
    /\ UNCHANGED <<packages, training, self, method, ret>>

\* The list is exhausted: the program ends with exit status 0.
LoopExit ==
    /\ pc = "loop"
    /\ idx > Len(packages)
    /\ pc' = "done"
    /\ UNCHANGED <<packages, idx, training, output, err, self, method, ret>>

Next == ReadPackage \/ Main \/ LoopExit

Spec == Init /\ [][Next]_vars

(* ------------------------- calls on one record ------------------------- *)
(* A second specification: one record of any class, built by its           *)
(* constructor from bounded values, on which the methods are called in any *)
(* order.  ret holds what the last call returned or raised.                *)

Classes == {"Training", "Running", "SportsWalking", "Swimming"}

TrainingData ==
    { <<a, d, w>> : a \in {-1000, 0, 720, 15000}, d \in {-1, 0, 1, 2},
                    w \in {0, 75, 80} }

SportsWalkingData ==
    { <<a, d, w, h>> : a \in {-20000, 0, 20000}, d \in {-1, 0, 1, 2},
                       w \in {0, 75}, h \in {0, 100, 180} }

SwimmingData ==
    { <<a, d, w, l, c>> : a \in {-1000, 0, 720}, d \in {-1, 0, 1, 2},
                          w \in {0, 80}, l \in {0, 25}, c \in {-4, 0, 40} }

DataOf(cls) ==
    CASE cls = "SportsWalking" -> SportsWalkingData
      [] cls = "Swimming"      -> SwimmingData
      [] OTHER                 -> TrainingData

Instances == UNION { { Construct(cls, data).val : data \in DataOf(cls) } : cls \in Classes }

InitCalc ==
    /\ self \in Instances
    /\ method = "__init__"
    /\ ret = None
    /\ packages = <<>>
    /\ idx = 1
    /\ pc = "calls"
    /\ training = None
    /\ output = <<>>
    /\ err = None

CallGetDistance ==
    /\ method' = "get_distance"
    /\ ret' = get_distance(self)
    /\ UNCHANGED <<self, packages, idx, pc, training, output, err>>

CallGetMeanSpeed ==
    /\ method' = "get_mean_speed"
    /\ ret' = get_mean_speed(self)
    /\ UNCHANGED <<self, packages, idx, pc, training, output, err>>

CallGetSpentCalories ==
    /\ method' = "get_spent_calories"
    /\ ret' = get_spent_calories(self)
    /\ UNCHANGED <<self, packages, idx, pc, training, output, err>>

CallShowTrainingInfo ==
    /\ method' = "show_training_info"
    /\ ret' = show_training_info(self)
    /\ UNCHANGED <<self, packages, idx, pc, training, output, err>>

\* self.show_training_info().get_message(), as main does.
CallGetMessage ==
    /\ method' = "get_message"
    /\ ret' = main(self)
    /\ UNCHANGED <<self, packages, idx, pc, training, output, err>>

NextCalc ==
    \/ CallGetDistance
    \/ CallGetMeanSpeed
    \/ CallGetSpentCalories
    \/ CallShowTrainingInfo
    \/ CallGetMessage

SpecCalc == InitCalc /\ [][NextCalc]_vars

(* ======================= the claims ==================================== *)

Range(f) == { f[i] : i \in DOMAIN f }

KnownCodes == {"SWM", "RUN", "WLK"}

\* The variant the specification assigns to a type code.
VariantOf(code) ==
    CASE code = "SWM" -> "Swimming"
      [] code = "RUN" -> "Running"
      [] code = "WLK" -> "SportsWalking"
      [] OTHER        -> "no variant"

\* The number of values the specification gives each variant.
ArityOf(code) ==
    CASE code = "SWM" -> 5
      [] code = "WLK" -> 4
      [] OTHER        -> 3

\* A package the specification calls valid: a known code, the right number
\* of values, a duration other than 0 and, for walking, a height other than 0.
Valid(p) ==
    /\ p[1] \in KnownCodes
    /\ Len(p[2]) = ArityOf(p[1])
    /\ p[2][2] # 0
    /\ p[1] = "WLK" => p[2][4] # 0

\* The line the program prints for a valid package.
LineOf(p) == main(read_package(p[1], p[2]).val).val

\* An error message names x.
Names(e, x) == x \in Range(e.args)

\* C1: read_package maps each type code to its variant: a value list of the
\* right arity under SWM, RUN or WLK yields a Swimming, Running or
\* SportsWalking record, and every printed summary carries that variant's
\* own name as its training type.
C1_CodeMapsToVariant ==
    /\ pc = "main" => training.cls = VariantOf(packages[idx][1])
    /\ (pc = "crashed" /\ err.tb = "read_package" /\ packages[idx][1] \in KnownCodes)
          => Len(packages[idx][2]) # ArityOf(packages[idx][1])
    /\ \A i \in 1..Len(output) :
          output[i].training_type = VariantOf(packages[i][1])

C1_Witness ==
    /\ Len(output) = 3
    /\ { output[i].training_type : i \in 1..3 } = {"Swimming", "Running", "SportsWalking"}

\* C2: an unknown type code never yields an object and is reported by an
\* error that names the unknown code.
C2_UnknownCodeReported ==
    /\ pc = "main" => packages[idx][1] \in KnownCodes
    /\ (pc = "crashed" /\ err.tb = "read_package" /\ packages[idx][1] \notin KnownCodes)
          => Names(err, packages[idx][1])

\* C3: for valid records one line is printed per record, line i is the
\* summary of record i, and a record is constructed, computed and printed
\* before the next one starts.
C3_OneLinePerRecordInOrder ==
    /\ pc \in {"loop", "main", "crashed"} => Len(output) = idx - 1
    /\ pc = "main" =>
          Ok(training) = read_package(packages[idx][1], packages[idx][2])
    /\ pc = "done" => Len(output) = Len(packages)
    /\ \A i \in 1..Len(output) : output[i] = LineOf(packages[i])
    /\ (\A i \in 1..Len(packages) : Valid(packages[i])) => pc # "crashed"

C3_Witness ==
    /\ pc = "done"
    /\ Len(output) >= 2
    /\ output[1] # output[2]

\* Every sensor value the record holds is >= 0.
NonNegativeInputs(t) ==
    /\ t.action >= 0
    /\ t.weight >= 0
    /\ t.cls = "SportsWalking" => t.height >= 0
    /\ t.cls = "Swimming" => t.length_pool >= 0 /\ t.count_pool >= 0

Variants == {"Running", "SportsWalking", "Swimming"}

\* A computation of the record reads its duration (every speed, calorie and
\* summary computation does) or its height (walking calories and summary).
UsesDuration(m) ==
    m \in {"get_mean_speed", "get_spent_calories", "show_training_info", "get_message"}

UsesHeight(m) ==
    m \in {"get_spent_calories", "show_training_info", "get_message"}

\* C4: a record with duration 0, or a walking record with height 0, fails
\* with a descriptive error, one that names the offending field, when its
\* speed, calories or summary is computed.
C4_ZeroIsValidated ==
    /\ (self.cls \in Variants /\ NonNegativeInputs(self) /\ self.duration = 0
           /\ UsesDuration(method))
          => ~ret.ok /\ Names(ret.err, "duration")
    /\ (self.cls = "SportsWalking" /\ NonNegativeInputs(self) /\ self.duration > 0
           /\ self.height = 0 /\ UsesHeight(method))
          => ~ret.ok /\ Names(ret.err, "height")

\* The step length of the specification, in hundredths of a metre.
StepLengthCm(cls) == IF cls = "Swimming" THEN 138 ELSE 65

\* C5: get_distance returns action * stepLength / 1000 with step length 0.65
\* for Running and SportsWalking and 1.38 for Swimming; no other field of
\* the record enters the result.
C5_DistanceFormula ==
    method = "get_distance" =>
        /\ ret.ok
        /\ ret.val = Rat(self.action * StepLengthCm(self.cls), 100 * 1000)

C5_Witness ==
    /\ method = "get_distance"
    /\ self.cls = "Swimming"
    /\ self.action = 720
    /\ ret.val = Rat(9936, 10000)

RunningSample == Training__init__("Running", 15000, 1, 75)

\* C6 as amended: for the Running record action=15000, duration=1,
\* weight=75 the distance is 9.75 km, the mean speed 9.75 km/h and the
\* calories 797.805.
C6_RunningSample ==
    self = RunningSample =>
        /\ method = "get_distance" => ret = Ok(Rat(975, 100))
        /\ method = "get_mean_speed" => ret = Ok(Rat(975, 100))
        /\ method = "get_spent_calories" => ret = Ok(Rat(797805, 1000))

C6_Witness ==
    /\ self = RunningSample
    /\ method = "get_spent_calories"
    /\ ret.ok

\* C6 as stated: the calories of that record come to approximately 789.675
\* (to three decimals).
C6_RunningSampleAsStated ==
    (self = RunningSample /\ method = "get_spent_calories")
        => ret.ok /\ Thousandths(ret.val) = 789675

SwimmingSample == Swimming__init__(720, 1, 80, 25, 40)

\* C7: for every Swimming record the mean speed is
\* poolLength * laps / 1000 / duration, whatever the stroke count, and the
\* calories are (meanSpeed + 1.1) * 2 * weight * duration with that speed,
\* which is (poolLength * laps + 1100 * duration) * weight / 500; the sample
\* record has mean speed 1.0 and calories 336.0.
C7_SwimmingFormulas ==
    (self.cls = "Swimming" /\ self.duration # 0) =>
        /\ method = "get_mean_speed" =>
              ret = Ok(Rat(self.length_pool * self.count_pool, 1000 * self.duration))
        /\ method = "get_spent_calories" =>
              ret = Ok(Rat((self.length_pool * self.count_pool + 1100 * self.duration)
                               * self.weight, 500))
        /\ (self = SwimmingSample /\ method = "get_mean_speed") => ret = Ok(FromInt(1))
        /\ (self = SwimmingSample /\ method = "get_spent_calories")
              => ret = Ok(FromInt(336))

C7_Witness ==
    /\ self = SwimmingSample
    /\ method = "get_spent_calories"
    /\ ret = Ok(FromInt(336))

\* C8: get_spent_calories on a base Training record signals an error instead
\* of returning a value, so no summary can be built from a base record.
C8_BaseCaloriesIsError ==
    (self.cls = "Training" /\ NonNegativeInputs(self) /\ self.duration > 0) =>
        /\ method = "get_spent_calories" => ~ret.ok
        /\ method = "show_training_info" => ~ret.ok

\* C9: with non-negative inputs and a duration greater than 0, get_distance
\* and get_mean_speed (the Swimming override included) return a value >= 0.
C9_NonNegativeResults ==
    (NonNegativeInputs(self) /\ self.duration > 0
        /\ method \in {"get_distance", "get_mean_speed"})
        => ret.ok /\ ret.val.d > 0 /\ ret.val.n >= 0

C9_Witness ==
    /\ self.cls = "Swimming"
    /\ NonNegativeInputs(self)
    /\ self.duration > 0
    /\ method = "get_mean_speed"
    /\ ret.ok
    /\ ret.val.n > 0

\* The position of the first package that is not valid (0: there is none).
FirstInvalid ==
    IF \A i \in 1..Len(packages) : Valid(packages[i]) THEN 0
    ELSE CHOOSE k \in 1..Len(packages) :
            /\ ~Valid(packages[k])
            /\ \A i \in 1..(k - 1) : Valid(packages[i])

\* C10: when record k is the first to fail, the output is exactly the lines
\* of records 1..k-1 in order: record k prints nothing, the error ends the
\* program, and no later record is constructed or printed.
C10_FailureStopsTheLoop ==
    FirstInvalid # 0 =>
        /\ idx <= FirstInvalid
        /\ Len(output) <= FirstInvalid - 1
        /\ pc # "done"
        /\ pc = "crashed" =>
              /\ idx = FirstInvalid
              /\ ~IsNone(err)
              /\ Len(output) = FirstInvalid - 1
              /\ \A i \in 1..(FirstInvalid - 1) : output[i] = LineOf(packages[i])
              /\ ~ENABLED Next
        /\ (pc = "main" /\ idx = FirstInvalid) =>
              ~show_training_info(training).ok

C10_Witness ==
    /\ pc = "crashed"
    /\ FirstInvalid = 2
    /\ Len(packages) = 3
    /\ Len(output) = 1

=============================================================================
